---- MODULE Spec2Model ----
(***************************************************************************)
(* Coach-evaluation pipeline of tavva/flow:                                *)
(*   - ToolCorrectnessMetric (metrics/tool_correctness.py): the three-node *)
(*     decision tree scoring tool usage;                                   *)
(*   - CoachTestBridge (bridge.py) and the parametrized test               *)
(*     test_coach_evaluation (test_coach_evaluation.py): the orchestrator. *)
(* Scores and thresholds are kept in hundredths (0.4 is 40, 0.8 is 80).    *)
(* A Python dict is a function whose DOMAIN is the set of its keys; the    *)
(* empty dict is the function with the empty domain.                       *)
(***************************************************************************)
EXTENDS Integers, Sequences, FiniteSets, TLC

VARIABLES
    expected_tools,   \* ToolCorrectnessMetric.expected_tools
    threshold,        \* ToolCorrectnessMetric.threshold
    decisions,        \* ToolCorrectnessMetric.decisions
    score,            \* ToolCorrectnessMetric.score (NoScore until measure sets it)
    test_case,        \* the LLMTestCase of the latest measure call
    nMeasures,        \* number of measure calls made on the instance
    corpus,           \* TEST_CASES, the loaded test-case corpus
    current,          \* index of the parametrized case pytest is running
    pc,               \* position in test_coach_evaluation: "start" or "bridged"
    result,           \* what bridge.run_test_case returned for the current case
    outcome,          \* per case: "pending", "passed", "failed" or "error"
    raised,           \* the exception that ended the latest finished case
    deepeval_case,    \* the LLMTestCase built for the latest evaluated case
    verdicts,         \* per-metric verdicts of the latest evaluated case
    bridgeCalls       \* per case: number of subprocess invocations

metricVars == <<expected_tools, threshold, decisions, score, test_case, nMeasures>>
orchVars ==
    <<corpus, current, pc, result, outcome, raised, deepeval_case, verdicts, bridgeCalls>>
vars == <<metricVars, orchVars>>

----------------------------------------------------------------------------
(* Bounds of the model *)

MaxExpected == 2
MaxActual == 2
MaxMeasures == 2
NumCases == 2

----------------------------------------------------------------------------
(* Python values *)

\* The values the dicts hold (tool names, parameter names, parameter values)
\* are Python values: None, or the string s written Str(s). None equals no
\* string, and a key holding None reads the same as an absent key read with
\* dict.get. The keys "name", "parameters", "requiredParams", ... that the code
\* reads by literal are plain strings.
None == [some |-> FALSE]
Str(s) == [some |-> TRUE, val |-> s]

\* no exception raised
NoException == "no exception"
NoScore == -1

EmptyDict == [k \in {} |-> None]

\* dict.get(key, default)
Get(d, k, default) == IF k \in DOMAIN d THEN d[k] ELSE default

\* t.get("name")
GetName(d) == Get(d, "name", None)

\* truth value of a dict: empty dicts are falsy
Truthy(d) == DOMAIN d # {}

----------------------------------------------------------------------------
(* Input domains *)

\* actual tool calls: the empty record, a call without a "parameters" key, and
\* calls of one tool whose parameters differ in keys and in values
ActualDicts ==
    { EmptyDict,
      [name |-> Str("update_project")],
      [name |-> Str("add_next_action"),
       parameters |-> (Str("project_path") :> Str("Projects/Test.md"))],
      [name |-> Str("add_next_action"),
       parameters |-> (Str("project_path") :> Str("Projects/Other.md")
                         @@ Str("action_text") :> Str("Do something"))] }

\* expected tools: without a name, without "requiredParams", and with one or two
\* required parameters
ExpectedDicts ==
    { EmptyDict,
      [name |-> Str("update_project")],
      [name |-> Str("update_project"), requiredParams |-> <<Str("project_path")>>],
      [name |-> Str("add_next_action"), requiredParams |-> <<Str("project_path")>>],
      [name |-> Str("add_next_action"),
       requiredParams |-> <<Str("project_path"), Str("action_text")>>] }

SeqsUpTo(S, n) == UNION {[1..k -> S] : k \in 0..n}

ExpectedLists == SeqsUpTo(ExpectedDicts, MaxExpected)
ActualLists == SeqsUpTo(ActualDicts, MaxActual)

\* LLMTestCase.additional_metadata: None, a dict without "tool_calls", or a
\* dict with the list of tool calls
Metadata ==
    {[kind |-> "none", tool_calls |-> <<>>], [kind |-> "nokey", tool_calls |-> <<>>]}
      \cup {[kind |-> "calls", tool_calls |-> l] : l \in ActualLists}

----------------------------------------------------------------------------
(* ToolCorrectnessMetric *)

DefaultThreshold == 80
ScoreFail == 0
ScoreWrongTypes == 40
ScoreWrongParams == 70
ScorePerfect == 100

\* (test_case.additional_metadata or {}).get("tool_calls", [])
ActualTools(md) == IF md.kind = "calls" THEN md.tool_calls ELSE <<>>

Names(tools) == {GetName(tools[i]) : i \in DOMAIN tools}

\* comparing the lists of names instead of the sets
ValidateToolTypesAsLists(expected, actual_tools) ==
    [i \in DOMAIN expected |-> GetName(expected[i])]
      = [i \in DOMAIN actual_tools |-> GetName(actual_tools[i])]

ValidateToolTypes(expected, actual_tools) == Names(expected) = Names(actual_tools)

\* next((t for t in actual_tools if t.get("name") == tool_name), None):
\* the index of the first match, 0 for None
RECURSIVE NextMatch(_, _, _)
NextMatch(actual_tools, tool_name, i) ==
    IF i > Len(actual_tools) THEN 0
    ELSE IF GetName(actual_tools[i]) = tool_name THEN i
    ELSE NextMatch(actual_tools, tool_name, i + 1)

RECURSIVE ParamsPresent(_, _, _)
ParamsPresent(required_params, actual_params, j) ==
    IF j > Len(required_params) THEN TRUE
    ELSE IF required_params[j] \notin DOMAIN actual_params THEN FALSE
    ELSE ParamsPresent(required_params, actual_params, j + 1)

RECURSIVE ValidateFrom(_, _, _)
ValidateFrom(expected, actual_tools, i) ==
    IF i > Len(expected) THEN TRUE
    ELSE LET tool_name == GetName(expected[i])
             required_params == Get(expected[i], "requiredParams", <<>>)
             m == NextMatch(actual_tools, tool_name, 1)
         IN IF m = 0 \/ ~Truthy(actual_tools[m]) THEN FALSE
            ELSE IF ~ParamsPresent(required_params,
                                   Get(actual_tools[m], "parameters", EmptyDict), 1)
                 THEN FALSE
            ELSE ValidateFrom(expected, actual_tools, i + 1)

ValidateToolParams(expected, actual_tools) == ValidateFrom(expected, actual_tools, 1)

Decision(node, passed) == [node |-> node, passed |-> passed]

\* measure with node 1 failing only for tools called when none were expected
MeasureResultOneSided(expected, old_decisions, md) ==
    LET actual_tools == ActualTools(md)
        tools_called == Len(actual_tools) > 0
        should_call_tools == Len(expected) > 0
    IN IF tools_called /\ ~should_call_tools
         THEN [score |-> ScoreFail,
               decisions |-> Append(old_decisions, Decision("tool_decision", FALSE))]
       ELSE IF ~should_call_tools
         THEN [score |-> ScorePerfect, decisions |-> old_decisions]
       ELSE LET correct_tools == ValidateToolTypes(expected, actual_tools)
                d2 == Append(old_decisions, Decision("tool_types", correct_tools))
            IN IF ~correct_tools
                 THEN [score |-> ScoreWrongTypes, decisions |-> d2]
               ELSE LET correct_params == ValidateToolParams(expected, actual_tools)
                        d3 == Append(d2, Decision("tool_params", correct_params))
                    IN [score |-> IF correct_params THEN ScorePerfect
                                  ELSE ScoreWrongParams,
                        decisions |-> d3]

\* measure recording node 1 also when it passes
MeasureResultRecordsPass(expected, old_decisions, md) ==
    LET actual_tools == ActualTools(md)
        tools_called == Len(actual_tools) > 0
        should_call_tools == Len(expected) > 0
        d1 == Append(old_decisions, Decision("tool_decision", TRUE))
    IN IF tools_called # should_call_tools
         THEN [score |-> ScoreFail,
               decisions |-> Append(old_decisions, Decision("tool_decision", FALSE))]
       ELSE IF ~should_call_tools
         THEN [score |-> ScorePerfect, decisions |-> d1]
       ELSE LET correct_tools == ValidateToolTypes(expected, actual_tools)
                d2 == Append(d1, Decision("tool_types", correct_tools))
            IN IF ~correct_tools
                 THEN [score |-> ScoreWrongTypes, decisions |-> d2]
               ELSE LET correct_params == ValidateToolParams(expected, actual_tools)
                        d3 == Append(d2, Decision("tool_params", correct_params))
                    IN [score |-> IF correct_params THEN ScorePerfect
                                  ELSE ScoreWrongParams,
                        decisions |-> d3]

\* measure: the score it returns and the decisions list it leaves behind
MeasureResult(expected, old_decisions, md) ==
    LET actual_tools == ActualTools(md)
        tools_called == Len(actual_tools) > 0
        should_call_tools == Len(expected) > 0
    IN IF tools_called # should_call_tools
         THEN [score |-> ScoreFail,
               decisions |-> Append(old_decisions, Decision("tool_decision", FALSE))]
       ELSE IF ~should_call_tools
         THEN [score |-> ScorePerfect, decisions |-> old_decisions]
       ELSE LET correct_tools == ValidateToolTypes(expected, actual_tools)
                d2 == Append(old_decisions, Decision("tool_types", correct_tools))
            IN IF ~correct_tools
                 THEN [score |-> ScoreWrongTypes, decisions |-> d2]
               ELSE LET correct_params == ValidateToolParams(expected, actual_tools)
                        d3 == Append(d2, Decision("tool_params", correct_params))
                    IN [score |-> IF correct_params THEN ScorePerfect
                                  ELSE ScoreWrongParams,
                        decisions |-> d3]

\* is_successful
IsSuccessful(s, t) == s >= t

MetricInit ==
    /\ expected_tools \in ExpectedLists
    /\ threshold = DefaultThreshold
    /\ decisions = <<>>
    /\ score = NoScore
    /\ test_case = [kind |-> "none", tool_calls |-> <<>>]
    /\ nMeasures = 0

Measure(md) ==
    /\ nMeasures < MaxMeasures
    /\ LET r == MeasureResult(expected_tools, decisions, md)
       IN /\ score' = r.score
          /\ decisions' = r.decisions
    /\ test_case' = md
    /\ nMeasures' = nMeasures + 1
    /\ UNCHANGED <<expected_tools, threshold>>

----------------------------------------------------------------------------
(* CoachTestBridge *)

\* Standard output of the runner as a token sequence. "messages" and
\* "toolCalls" stand for the members "messages": [...] and "toolCalls": [...].
Stdouts ==
    { <<>>,
      <<"{">>,
      <<"{", "}">>,
      <<"{", "messages", "}">>,
      <<"{", "toolCalls", "}">>,
      <<"{", "messages", ",", "}">>,
      <<"{", "messages", ",", "toolCalls", "}">>,
      <<"{", "toolCalls", ",", "messages", "}">> }

JsonKeys == {"messages", "toolCalls"}

\* the members between the braces: key ("," key)*
RECURSIVE MembersOk(_, _)
MembersOk(body, i) ==
    IF i > Len(body) THEN FALSE
    ELSE IF body[i] \notin JsonKeys THEN FALSE
    ELSE IF i = Len(body) THEN TRUE
    ELSE IF body[i + 1] # "," THEN FALSE
    ELSE MembersOk(body, i + 2)

\* json.loads(result.stdout): ok is FALSE for JSONDecodeError
JsonLoads(stdout, messages, tool_calls) ==
    IF Len(stdout) < 2 \/ stdout[1] # "{" \/ stdout[Len(stdout)] # "}"
      THEN [ok |-> FALSE, value |-> EmptyDict]
    ELSE LET body == SubSeq(stdout, 2, Len(stdout) - 1)
             keys == {body[i] : i \in DOMAIN body} \cap JsonKeys
         IN IF Len(body) > 0 /\ ~MembersOk(body, 1)
              THEN [ok |-> FALSE, value |-> EmptyDict]
            ELSE [ok |-> TRUE,
                  value |-> [k \in keys |->
                               IF k = "messages" THEN messages ELSE tool_calls]]

\* run_test_case: subprocess.run(..., check=True), then json.loads
RunTestCase(returncode, stdout, messages, tool_calls) ==
    IF returncode # 0
      THEN [raised |-> "CalledProcessError", value |-> EmptyDict]
    ELSE LET parsed == JsonLoads(stdout, messages, tool_calls)
         IN IF ~parsed.ok
              THEN [raised |-> "JSONDecodeError", value |-> EmptyDict]
            ELSE [raised |-> NoException, value |-> parsed.value]

----------------------------------------------------------------------------
(* test_coach_evaluation *)

RelevancyThreshold == 70
QualityDefaultThreshold == 70
ToolThreshold == 80

ReturnCodes == {0, 1}
MessageLists == {<<>>, <<"Try one next action">>}
BridgeToolCalls ==
    { <<>>,
      <<[name |-> Str("add_next_action")]>>,
      <<[name |-> Str("add_next_action"),
         parameters |-> (Str("project_path") :> Str("Projects/Test.md"))]>> }
QualityScores == {60, 75, 90}
RelevancyScores == {60, 90}

\* the "expectations" blocks of the corpus; the last one holds an expected tool
\* without a name
ExpectationBlocks ==
    { [toolUsage |-> <<>>],
      [coachingQuality |-> [threshold |-> 80]],
      [toolUsage |-> <<[name |-> Str("add_next_action"),
                        requiredParams |-> <<Str("project_path")>>]>>,
       coachingQuality |-> [threshold |-> 80]],
      [toolUsage |-> <<EmptyDict>>] }

TestCases ==
    {[id |-> "no-expectations"]}
      \cup {[id |-> "case", expectations |-> e] : e \in ExpectationBlocks}

Expectations(tc) == Get(tc, "expectations", EmptyDict)

Metric(name, t, expected) == [name |-> name, threshold |-> t, expected_tools |-> expected]

\* lines 55-75: the metrics list
BuildToolMetric(tc) ==
    IF "toolUsage" \in DOMAIN Expectations(tc)
      THEN <<Metric("Tool Correctness", ToolThreshold, Expectations(tc).toolUsage)>>
    ELSE <<>>

\* the coaching-quality metric left at its default threshold
BuildQualityMetricDefaultThreshold(tc) ==
    IF "coachingQuality" \in DOMAIN Expectations(tc)
      THEN <<Metric("GTD Coaching Quality", QualityDefaultThreshold, <<>>)>>
    ELSE <<>>

BuildQualityMetric(tc) ==
    IF "coachingQuality" \in DOMAIN Expectations(tc)
      THEN <<Metric("GTD Coaching Quality",
                    Expectations(tc).coachingQuality.threshold, <<>>)>>
    ELSE <<>>

BuildMetrics(tc) ==
    BuildToolMetric(tc) \o BuildQualityMetric(tc)
      \o <<Metric("Answer Relevancy", RelevancyThreshold, <<>>)>>

\* the score of one metric on the deepeval case: the decision tree for the tool
\* metric (a new instance, so its decisions start empty), the judge's score for
\* the others
MetricScore(m, md, quality, relevancy) ==
    IF m.name = "Tool Correctness"
      THEN MeasureResult(m.expected_tools, <<>>, md).score
    ELSE IF m.name = "GTD Coaching Quality" THEN quality
    ELSE relevancy

Verdict(m, s) ==
    [name |-> m.name, score |-> s, threshold |-> m.threshold,
     passed |-> IsSuccessful(s, m.threshold)]

\* assert_test(deepeval_case, metrics): every metric scored on the same case
AssertTest(md, metrics, quality, relevancy) ==
    [i \in DOMAIN metrics |->
        Verdict(metrics[i], MetricScore(metrics[i], md, quality, relevancy))]

AllPassed(vs) == \A i \in DOMAIN vs : vs[i].passed

\* pytest reports the case and goes on to the next parametrized case
FinishCase(out, exc) ==
    /\ outcome' = [outcome EXCEPT ![current] = out]
    /\ raised' = exc
    /\ current' = current + 1
    /\ pc' = "start"
    /\ result' = EmptyDict

OrchInit ==
    /\ corpus \in [1..NumCases -> TestCases]
    /\ current = 1
    /\ pc = "start"
    /\ result = EmptyDict
    /\ outcome = [i \in 1..NumCases |-> "pending"]
    /\ raised = NoException
    /\ deepeval_case = [kind |-> "none", tool_calls |-> <<>>]
    /\ verdicts = <<>>
    /\ bridgeCalls = [i \in 1..NumCases |-> 0]

\* the bridge call with one retry after a failed invocation
RunBridgeWithRetry(returncode, stdout, messages, tool_calls) ==
    /\ current <= NumCases
    /\ pc = "start"
    /\ LET r == RunTestCase(returncode, stdout, messages, tool_calls)
       IN IF r.raised # NoException
            THEN /\ bridgeCalls' = [bridgeCalls EXCEPT ![current] = @ + 2]
                 /\ FinishCase("error", r.raised)
          ELSE /\ bridgeCalls' = [bridgeCalls EXCEPT ![current] = @ + 1]
               /\ result' = r.value
               /\ pc' = "bridged"
               /\ UNCHANGED <<current, outcome, raised>>
    /\ UNCHANGED <<corpus, deepeval_case, verdicts>>

\* lines 31-34: bridge = CoachTestBridge(); result = bridge.run_test_case(test_case)
RunBridge(returncode, stdout, messages, tool_calls) ==
    /\ current <= NumCases
    /\ pc = "start"
    /\ bridgeCalls' = [bridgeCalls EXCEPT ![current] = @ + 1]
    /\ LET r == RunTestCase(returncode, stdout, messages, tool_calls)
       IN IF r.raised # NoException
            THEN FinishCase("error", r.raised)
          ELSE /\ result' = r.value
               /\ pc' = "bridged"
               /\ UNCHANGED <<current, outcome, raised>>
    /\ UNCHANGED <<corpus, deepeval_case, verdicts>>

\* lines 36-78: the deepeval case, the metrics list and assert_test
Evaluate(quality, relevancy) ==
    /\ current <= NumCases
    /\ pc = "bridged"
    /\ IF "messages" \notin DOMAIN result \/ "toolCalls" \notin DOMAIN result
         THEN /\ FinishCase("error", "KeyError")
              /\ UNCHANGED <<deepeval_case, verdicts>>
       ELSE LET md == [kind |-> "calls", tool_calls |-> result.toolCalls]
                vs == AssertTest(md, BuildMetrics(corpus[current]), quality, relevancy)
            IN /\ deepeval_case' = md
               /\ verdicts' = vs
               /\ IF AllPassed(vs) THEN FinishCase("passed", NoException)
                  ELSE FinishCase("failed", "AssertionError")
    /\ UNCHANGED <<corpus, bridgeCalls>>

----------------------------------------------------------------------------
(* Specifications *)

\* one metric instance, measured repeatedly
Init == MetricInit /\ OrchInit /\ corpus = [i \in 1..NumCases |-> [id |-> "no-expectations"]]

Next == \E md \in Metadata : Measure(md) /\ UNCHANGED orchVars

Spec == Init /\ [][Next]_vars

\* the run of test_coach_evaluation over the corpus
OrchSpecInit == MetricInit /\ expected_tools = <<>> /\ OrchInit

OrchNext ==
    \/ \E rc \in ReturnCodes, out \in Stdouts, ms \in MessageLists,
          tcs \in BridgeToolCalls :
          RunBridge(rc, out, ms, tcs) /\ UNCHANGED metricVars
    \/ \E q \in QualityScores, r \in RelevancyScores :
          Evaluate(q, r) /\ UNCHANGED metricVars

OrchSpec == OrchSpecInit /\ [][OrchNext]_vars

----------------------------------------------------------------------------
(* Properties of ToolCorrectnessMetric, checked under Spec *)

actual == ActualTools(test_case)
Measured == nMeasures >= 1
BothSides == Len(expected_tools) > 0 /\ Len(actual) > 0

\* C1: when exactly one of the expected-tool list and the actual tool-call
\* list is non-empty, measure returns 0.0, whatever the names and parameters.
C1_ExactlyOneSideScoresZero ==
    (Measured /\ ((Len(expected_tools) > 0) # (Len(actual) > 0)))
        => score = ScoreFail

\* tools expected, a transcript without metadata, on the second measure call
C1_Witness ==
    /\ nMeasures = 2
    /\ Len(expected_tools) = 2
    /\ test_case.kind = "none"
    /\ score = ScoreFail

\* C2: a new metric with no expected tools, measuring a transcript without tool
\* calls, returns 1.0 and leaves the decisions list empty.
C2_TrivialPassLeavesNoTrace ==
    (nMeasures = 1 /\ Len(expected_tools) = 0 /\ Len(actual) = 0)
        => /\ score = ScorePerfect
           /\ decisions = <<>>
           /\ IsSuccessful(score, threshold)

C2_Witness ==
    /\ nMeasures = 1
    /\ expected_tools = <<>>
    /\ test_case.kind = "none"
    /\ score = ScorePerfect
    /\ decisions = <<>>

\* C3: with tools on both sides, the score is 0.4 exactly when the set of
\* expected tool names differs from the set of actual tool names; order,
\* repetition and parameters play no part.
C3_WrongTypesIffNameSetsDiffer ==
    (Measured /\ BothSides)
        => (score = ScoreWrongTypes <=> Names(expected_tools) # Names(actual))

\* the same two names on both sides, in another order on the actual side
C3_Witness ==
    /\ Measured
    /\ Len(expected_tools) = 2
    /\ Len(actual) = 2
    /\ expected_tools[1] = [name |-> Str("update_project")]
    /\ GetName(expected_tools[2]) = Str("add_next_action")
    /\ GetName(actual[1]) = Str("add_next_action")
    /\ actual[2] = [name |-> Str("update_project")]
    /\ score # ScoreWrongTypes

\* the first actual call named n
FirstCall(n) ==
    actual[CHOOSE k \in DOMAIN actual :
               /\ GetName(actual[k]) = n
               /\ \A j \in 1..(k - 1) : GetName(actual[j]) # n]

RequiredPresent(e) ==
    LET required == Get(e, "requiredParams", <<>>)
        keys == DOMAIN Get(FirstCall(GetName(e)), "parameters", EmptyDict)
    IN \A j \in DOMAIN required : required[j] \in keys

\* C4: with tools on both sides and equal name sets, the score is 1.0 exactly
\* when every expected tool has each of its required parameters as a key of
\* the first actual call of that name, and 0.7 otherwise.
C4_ParamsDecideBetweenPerfectAndWrongParams ==
    (Measured /\ BothSides /\ Names(expected_tools) = Names(actual))
        => /\ score \in {ScorePerfect, ScoreWrongParams}
           /\ score = ScorePerfect
                <=> \A i \in DOMAIN expected_tools : RequiredPresent(expected_tools[i])

\* The statement of C4 restricted to transcripts whose tool-call records all
\* have at least one key.
ParamsDecideWhenCallsNonEmpty ==
    (\A k \in DOMAIN actual : Truthy(actual[k]))
        => C4_ParamsDecideBetweenPerfectAndWrongParams

\* C5: measuring the same transcript again leaves the score and the trace as
\* they were after the previous call.
C5_RemeasureIsIdempotent ==
    [][(Measured /\ nMeasures' = nMeasures + 1 /\ test_case' = test_case)
          => (score' = score /\ decisions' = decisions)]_vars

\* the trace the claim describes for a score: every evaluated node in order
FullTrace(s) ==
    IF s = ScoreFail THEN <<Decision("tool_decision", FALSE)>>
    ELSE IF s = ScoreWrongTypes
      THEN <<Decision("tool_decision", TRUE), Decision("tool_types", FALSE)>>
    ELSE <<Decision("tool_decision", TRUE), Decision("tool_types", TRUE),
           Decision("tool_params", s = ScorePerfect)>>

\* C6: after one measure call on a new metric with tools on at least one side,
\* the trace has one entry per evaluated node, passing nodes included.
C6_TraceHoldsEveryEvaluatedNode ==
    (nMeasures = 1 /\ (Len(expected_tools) > 0 \/ Len(actual) > 0))
        => decisions = FullTrace(score)

----------------------------------------------------------------------------
(* Properties of the bridge and the orchestrator, checked under OrchSpec *)

\* C7: run_test_case never hands the orchestrator a value without the message
\* list or without the tool-call list.
C7_BridgeReturnsTranscriptShape ==
    pc = "bridged" => {"messages", "toolCalls"} \subseteq DOMAIN result

\* an expected tool without a name (the key absent or holding None)
MalformedToolUsage(tc) ==
    /\ "toolUsage" \in DOMAIN Expectations(tc)
    /\ \E k \in DOMAIN Expectations(tc).toolUsage :
          GetName(Expectations(tc).toolUsage[k]) = None

\* C8: a test case with a malformed expected-tool specification never gets a
\* bridge subprocess invocation.
C8_MalformedSpecNeverReachesBridge ==
    \A i \in 1..NumCases : MalformedToolUsage(corpus[i]) => bridgeCalls[i] = 0

Evaluated(i) == outcome[i] \in {"passed", "failed"}

\* the metric names and thresholds the expectations block of tc calls for
WantedMetrics(tc) ==
    (IF "toolUsage" \in DOMAIN Expectations(tc)
       THEN <<[name |-> "Tool Correctness", threshold |-> 80]>> ELSE <<>>)
    \o (IF "coachingQuality" \in DOMAIN Expectations(tc)
          THEN <<[name |-> "GTD Coaching Quality",
                  threshold |-> Expectations(tc).coachingQuality.threshold]>>
        ELSE <<>>)
    \o <<[name |-> "Answer Relevancy", threshold |-> 70]>>

\* C9: the metric list of an evaluated case holds the tool metric iff toolUsage
\* is present, the coaching-quality metric (with the entry's threshold) iff
\* coachingQuality is present, and the relevancy metric always; the tool metric
\* is scored on the case's tool calls; the case passes iff every metric passes.
C9_VerdictIsConjunctionOfIncludedMetrics ==
    (current > 1 /\ Evaluated(current - 1))
        => LET tc == corpus[current - 1]
           IN /\ [i \in DOMAIN verdicts |->
                    [name |-> verdicts[i].name, threshold |-> verdicts[i].threshold]]
                 = WantedMetrics(tc)
              /\ \A i \in DOMAIN verdicts :
                    /\ verdicts[i].passed <=> verdicts[i].score >= verdicts[i].threshold
                    /\ verdicts[i].name = "Tool Correctness"
                         => verdicts[i].score
                              = MeasureResult(Expectations(tc).toolUsage, <<>>,
                                              deepeval_case).score
              /\ outcome[current - 1] = "passed"
                   <=> \A i \in DOMAIN verdicts :
                          verdicts[i].score >= verdicts[i].threshold

\* both expectations present; the tool metric and the relevancy metric pass
\* and the coaching-quality score 0.75 misses the entry's threshold 0.8
C9_Witness ==
    /\ current > 1
    /\ outcome[current - 1] = "failed"
    /\ Len(verdicts) = 3
    /\ verdicts[1].passed
    /\ verdicts[2].score = 75
    /\ ~verdicts[2].passed
    /\ verdicts[3].passed
    /\ DOMAIN Expectations(corpus[current - 1]) = {"toolUsage", "coachingQuality"}

\* C10: every case gets exactly one bridge invocation, in declaration order and
\* one case at a time, whatever the outcome of the other cases; the run goes on
\* until every case has its verdict.
C10_EveryCaseRunsOnceInOrder ==
    /\ \A i \in 1..NumCases :
          /\ i < current => (bridgeCalls[i] = 1 /\ outcome[i] # "pending")
          /\ i = current => (bridgeCalls[i] = (IF pc = "bridged" THEN 1 ELSE 0)
                               /\ outcome[i] = "pending")
          /\ i > current => (bridgeCalls[i] = 0 /\ outcome[i] = "pending")
    /\ (current > 1 /\ raised \in {"CalledProcessError", "JSONDecodeError"})
          => outcome[current - 1] = "error"
    /\ current <= NumCases => ENABLED OrchNext
    /\ current <= NumCases + 1

\* the first case ended in a bridge error, the last one still passed
C10_Witness ==
    /\ current = NumCases + 1
    /\ outcome[1] = "error"
    /\ outcome[NumCases] = "passed"
    /\ raised = NoException
    /\ \A i \in 1..NumCases : bridgeCalls[i] = 1

====
